---- MODULE Spec2Model ----
(***************************************************************************)
(* Fiscal oracle (src/oracle/fiscal_oracle.py): TaxEngine, FiscalOracle    *)
(* and the packed payloads it signs.                                       *)
(*                                                                         *)
(* Amounts are Python ints of arbitrary size (wei, 18 decimals).  They are *)
(* represented as sequences of base-256 digits, least significant first,   *)
(* without leading zero digits (0 is the empty sequence), so that the      *)
(* arithmetic is exact at 10^18 and above and the uint256 wire encoding is *)
(* the digit sequence itself.  Python floats are IEEE-754 doubles: a       *)
(* 53 bit significand m and an exponent e, value m * 2^e.                  *)
(***************************************************************************)
EXTENDS Integers, Sequences, FiniteSets

VARIABLES tax, private_key, signatures_issued, local, completed, verdict

vars == <<tax, private_key, signatures_issued, local, completed, verdict>>

(***************************************************************************)
(* Python int: exact arithmetic on digit sequences.                        *)
(***************************************************************************)
RECURSIVE Norm(_)
Norm(a) == IF a = <<>> THEN <<>>
           ELSE IF a[Len(a)] = 0 THEN Norm(SubSeq(a, 1, Len(a) - 1))
           ELSE a

RECURSIVE FromInt(_)
FromInt(n) == IF n = 0 THEN <<>> ELSE <<n % 256>> \o FromInt(n \div 256)

Dig(a, i) == IF i <= Len(a) THEN a[i] ELSE 0

RECURSIVE AddC(_, _, _, _)
AddC(a, b, i, c) ==
    IF i > Len(a) /\ i > Len(b)
    THEN (IF c = 0 THEN <<>> ELSE <<c>>)
    ELSE LET s == Dig(a, i) + Dig(b, i) + c
         IN  <<s % 256>> \o AddC(a, b, i + 1, s \div 256)

Add(a, b) == AddC(a, b, 1, 0)

\* a - b for a >= b
RECURSIVE SubB(_, _, _, _)
SubB(a, b, i, br) ==
    IF i > Len(a) THEN <<>>
    ELSE LET d == Dig(a, i) - Dig(b, i) - br
         IN  IF d < 0 THEN <<d + 256>> \o SubB(a, b, i + 1, 1)
             ELSE <<d>> \o SubB(a, b, i + 1, 0)

Sub(a, b) == Norm(SubB(a, b, 1, 0))

\* a * k for a machine-size k < 2^23
RECURSIVE MulSmallC(_, _, _, _)
MulSmallC(a, k, i, c) ==
    IF i > Len(a) THEN FromInt(c)
    ELSE LET p == a[i] * k + c
         IN  <<p % 256>> \o MulSmallC(a, k, i + 1, p \div 256)

MulSmall(a, k) == IF k = 0 THEN <<>> ELSE MulSmallC(a, k, 1, 0)

ShiftDigits(a, n) == IF a = <<>> THEN <<>> ELSE [i \in 1..n |-> 0] \o a

RECURSIVE Mul(_, _)
Mul(a, b) == IF b = <<>> \/ a = <<>> THEN <<>>
             ELSE Add(MulSmall(a, Head(b)), ShiftDigits(Mul(a, Tail(b)), 1))

\* -1, 0, 1 as a < b, a = b, a > b
RECURSIVE CmpFrom(_, _, _)
CmpFrom(a, b, i) ==
    IF i = 0 THEN 0
    ELSE IF a[i] < b[i] THEN -1
    ELSE IF a[i] > b[i] THEN 1
    ELSE CmpFrom(a, b, i - 1)

Cmp(a, b) == IF Len(a) < Len(b) THEN -1
             ELSE IF Len(a) > Len(b) THEN 1
             ELSE CmpFrom(a, b, Len(a))

Leq(a, b) == Cmp(a, b) <= 0

\* Python's min(a, b)
Min(a, b) == IF Cmp(b, a) < 0 THEN b ELSE a

\* floor(a / d) and a mod d for a machine-size d < 2^23
RECURSIVE DivModRec(_, _)
DivModRec(a, d) ==
    IF a = <<>> THEN [q |-> <<>>, r |-> 0]
    ELSE LET hi  == DivModRec(Tail(a), d)
             cur == hi.r * 256 + Head(a)
         IN  [q |-> <<cur \div d>> \o hi.q, r |-> cur % d]

DivModSmall(a, d) == LET x == DivModRec(a, d) IN [q |-> Norm(x.q), r |-> x.r]

RECURSIVE BitLenSmall(_)
BitLenSmall(n) == IF n = 0 THEN 0 ELSE 1 + BitLenSmall(n \div 2)

BitLen(a) == IF a = <<>> THEN 0 ELSE 8 * (Len(a) - 1) + BitLenSmall(a[Len(a)])

Pow2(k) == [i \in 1..(k \div 8) |-> 0] \o <<2 ^ (k % 8)>>

ShiftLeft(a, k) == ShiftDigits(MulSmall(a, 2 ^ (k % 8)), k \div 8)

ShiftRight(a, k) ==
    IF k \div 8 >= Len(a) THEN <<>>
    ELSE DivModSmall(SubSeq(a, (k \div 8) + 1, Len(a)), 2 ^ (k % 8)).q

\* a mod 2^k
LowBits(a, k) == Norm(SubSeq(a, 1, k \div 8) \o <<Dig(a, (k \div 8) + 1) % (2 ^ (k % 8))>>)

Zero == <<>>

IsOdd(a) == a # <<>> /\ a[1] % 2 = 1

(***************************************************************************)
(* Python float: IEEE-754 binary64, round to nearest, ties to even.        *)
(***************************************************************************)
\* Definitions that use an intermediate value more than once take it as a
\* parameter: one definition per step of the computation.

\* top * 2^sh rounded: c compares the bits shifted out with one half
RoundTop(top, c, sticky, sh) ==
    [m |-> IF c > 0 \/ (c = 0 /\ (sticky \/ IsOdd(top))) THEN Add(top, <<1>>) ELSE top,
     e |-> sh]

RoundShift(q, sticky, sh) ==
    RoundTop(ShiftRight(q, sh), Cmp(LowBits(q, sh), Pow2(sh - 1)), sticky, sh)

\* the double nearest to the exact value q (+ a fraction below 1 when
\* sticky), as significand and exponent
Round53(q, sticky) ==
    IF BitLen(q) <= 53 THEN [m |-> q, e |-> 0]
    ELSE RoundShift(q, sticky, BitLen(q) - 53)

\* float(n) for an int n
FloatOfInt(n) == Round53(n, FALSE)

Scaled(r, k) == [m |-> r.m, e |-> r.e - k]

RoundQuotient(qr, k) == Scaled(Round53(qr.q, qr.r # 0), k)

TrueDivScaled(a, d, k) == RoundQuotient(DivModSmall(ShiftLeft(a, k), d), k)

AtLeastZero(n) == IF n > 0 THEN n ELSE 0

\* a / d for ints a and d (true division, correctly rounded), d machine-size
TrueDiv(a, d) ==
    IF a = <<>> THEN [m |-> <<>>, e |-> 0]
    ELSE TrueDivScaled(a, d, AtLeastZero(55 + BitLenSmall(d) - BitLen(a)))

\* the double a decimal literal num/den denotes (0.0865 is 865/10000)
FloatLiteral(num, den) == TrueDiv(FromInt(num), den)

\* x * y for floats
FloatMul(x, y) == Scaled(Round53(Mul(x.m, y.m), FALSE), 0 - (x.e + y.e))

\* int(x) for a float x >= 0: truncation
IntOfFloat(x) == IF x.e >= 0 THEN ShiftLeft(x.m, x.e) ELSE ShiftRight(x.m, 0 - x.e)

(***************************************************************************)
(* TaxEngine                                                               *)
(***************************************************************************)
\* dict.get(key, default)
Get(table, key, default) == IF key \in DOMAIN table THEN table[key] ELSE default

\* the float literals of the table, in their four decimals: 0.0865 is 865
SECTOR_RATES ==
    [PADRAO              |-> [CBS |-> 865, IBS_ESTADO |-> 1115, IBS_MUNICIPIO |-> 470],
     SAUDE               |-> [CBS |-> 433, IBS_ESTADO |-> 558,  IBS_MUNICIPIO |-> 235],
     EDUCACAO            |-> [CBS |-> 433, IBS_ESTADO |-> 558,  IBS_MUNICIPIO |-> 235],
     TRANSPORTE_COLETIVO |-> [CBS |-> 433, IBS_ESTADO |-> 558,  IBS_MUNICIPIO |-> 235],
     CESTA_BASICA        |-> [CBS |-> 0,   IBS_ESTADO |-> 0,    IBS_MUNICIPIO |-> 0],
     COMBUSTIVEIS        |-> [CBS |-> 865, IBS_ESTADO |-> 1115, IBS_MUNICIPIO |-> 470]]

SIMPLIFIED_RATES_BPS ==
    [PADRAO              |-> 2650,
     SAUDE               |-> 1325,
     EDUCACAO            |-> 1325,
     TRANSPORTE_COLETIVO |-> 1325,
     CESTA_BASICA        |-> 0,
     COMBUSTIVEIS        |-> 2650]

\* int(gross_amount_wei * rate) for a float rate given by its literal
share(gross_amount_wei, literal) ==
    IntOfFloat(FloatMul(FloatOfInt(gross_amount_wei), FloatLiteral(literal, 10000)))

\* mutant: an unknown sector is taxed as the exempt one
sector_rates_fallback_exempt(sector) ==
    Get(SECTOR_RATES, sector, SECTOR_RATES["CESTA_BASICA"])

sector_rates(sector) == Get(SECTOR_RATES, sector, SECTOR_RATES["PADRAO"])

\* mutant: the whole tax is offset, whatever credit the seller holds
credit_offset_full(seller_credits_wei, total_tax) == total_tax

credit_offset_of(seller_credits_wei, total_tax) == Min(seller_credits_wei, total_tax)

\* a - b for Python ints; a negative result is kept as [neg |-> b - a]
Minus(a, b) == IF Leq(b, a) THEN Sub(a, b) ELSE [neg |-> Sub(b, a)]

\* total_tax / gross_amount_wei if gross_amount_wei > 0 else 0, kept as the
\* quotient's numerator and denominator; a zero denominator is the
\* ZeroDivisionError of an unguarded division
\* mutant: the division without its guard
standard_effective_rate_unguarded(total_tax, gross_amount_wei) ==
    [num |-> total_tax, den |-> gross_amount_wei]

standard_effective_rate(total_tax, gross_amount_wei) ==
    IF Cmp(gross_amount_wei, <<>>) > 0
    THEN [num |-> total_tax, den |-> gross_amount_wei]
    ELSE [num |-> <<>>, den |-> <<1>>]

\* mutant: the seller is paid the gross less the tax before credits
net_to_seller_ignoring_credit(gross_amount_wei, total_tax, net_tax) ==
    Minus(gross_amount_wei, total_tax)

net_to_seller_of(gross_amount_wei, total_tax, net_tax) == Minus(gross_amount_wei, net_tax)

standard_result(gross_amount_wei, sector, cbs_amount, ibs_state_amount, ibs_city_amount, total_tax, credit_offset, net_tax) ==
    [gross_amount     |-> gross_amount_wei,
     cbs_amount       |-> cbs_amount,
     ibs_state_amount |-> ibs_state_amount,
     ibs_city_amount  |-> ibs_city_amount,
     total_tax        |-> total_tax,
     credit_offset    |-> credit_offset,
     net_tax          |-> net_tax,
     net_to_seller    |-> net_to_seller_of(gross_amount_wei, total_tax, net_tax),
     effective_rate   |-> standard_effective_rate(total_tax, gross_amount_wei),
     sector           |-> sector]

standard_with_offset(gross_amount_wei, sector, cbs_amount, ibs_state_amount, ibs_city_amount, total_tax, credit_offset) ==
    standard_result(gross_amount_wei, sector, cbs_amount, ibs_state_amount,
                    ibs_city_amount, total_tax, credit_offset,
                    Minus(total_tax, credit_offset))

standard_with_total(gross_amount_wei, sector, seller_credits_wei, cbs_amount, ibs_state_amount, ibs_city_amount, total_tax) ==
    standard_with_offset(gross_amount_wei, sector, cbs_amount, ibs_state_amount,
                         ibs_city_amount, total_tax,
                         credit_offset_of(seller_credits_wei, total_tax))

standard_with_shares(gross_amount_wei, sector, seller_credits_wei, cbs_amount, ibs_state_amount, ibs_city_amount) ==
    standard_with_total(gross_amount_wei, sector, seller_credits_wei, cbs_amount,
                        ibs_state_amount, ibs_city_amount,
                        Add(Add(cbs_amount, ibs_state_amount), ibs_city_amount))

calculate_standard(gross_amount_wei, sector, seller_credits_wei) ==
    standard_with_shares(gross_amount_wei, sector, seller_credits_wei,
                         share(gross_amount_wei, sector_rates(sector).CBS),
                         share(gross_amount_wei, sector_rates(sector).IBS_ESTADO),
                         share(gross_amount_wei, sector_rates(sector).IBS_MUNICIPIO))

simplified_rate_bps(sector) == Get(SIMPLIFIED_RATES_BPS, sector, 2650)

\* int(gross_amount_wei * rate_bps / 10000): an int product, a true
\* division to float, a truncation
simplified_tax_amount(gross_amount_wei, rate_bps) ==
    IntOfFloat(TrueDiv(MulSmall(gross_amount_wei, rate_bps), 10000))

\* rate_bps / 10000, kept as numerator and denominator
simplified_effective_rate(rate_bps) == [num |-> FromInt(rate_bps), den |-> FromInt(10000)]

simplified_result(gross_amount_wei, sector, rate_bps, tax_amount) ==
    [gross_amount   |-> gross_amount_wei,
     rate_bps       |-> rate_bps,
     tax_amount     |-> tax_amount,
     net_to_seller  |-> Minus(gross_amount_wei, tax_amount),
     effective_rate |-> simplified_effective_rate(rate_bps),
     sector         |-> sector]

calculate_simplified(gross_amount_wei, sector) ==
    simplified_result(gross_amount_wei, sector, simplified_rate_bps(sector),
        simplified_tax_amount(gross_amount_wei, simplified_rate_bps(sector)))

(***************************************************************************)
(* Inputs                                                                  *)
(***************************************************************************)
MaxSmallGross == 12

\* Web3.to_wei(n, 'ether')
Ether(n) == MulSmall(Mul(FromInt(1000000000), FromInt(1000000000)), n)

KnownSectors == DOMAIN SECTOR_RATES
UnknownSectors == {"LUXO", ""}
Sectors == KnownSectors \cup UnknownSectors

TaxGross == {FromInt(n) : n \in 0..MaxSmallGross}
            \cup {FromInt(10000), Ether(1), Add(Ether(1), FromInt(100)),
                  Ether(200), Ether(1000)}

\* credits below, at and above the tax they offset
CreditsAround(total) ==
    {<<>>, <<1>>, Ether(50), total, Add(total, <<1>>), MulSmall(total, 10)}

TaxCredits(gross_amount_wei, sector) ==
    CreditsAround(calculate_standard(gross_amount_wei, sector, <<>>).total_tax)

\* a caller's request to the TaxEngine, not yet served
TaxCalls ==
    {[pc |-> "call", gross_amount_wei |-> g, sector |-> s, seller_credits_wei |-> c] :
        <<g, s, c>> \in UNION {{<<g, s, c>> : c \in TaxCredits(g, s)} :
                                  <<g, s>> \in TaxGross \X Sectors}}

NoTax == [pc |-> "none"]

CalcStandard ==
    /\ tax.pc = "call"
    /\ tax' = [pc |-> "calculate_standard",
               gross_amount_wei |-> tax.gross_amount_wei,
               sector |-> tax.sector,
               seller_credits_wei |-> tax.seller_credits_wei,
               result |-> calculate_standard(tax.gross_amount_wei, tax.sector,
                                             tax.seller_credits_wei)]
    /\ UNCHANGED <<private_key, signatures_issued, local, completed, verdict>>

CalcSimplified ==
    /\ tax.pc = "call"
    /\ tax' = [pc |-> "calculate_simplified",
               gross_amount_wei |-> tax.gross_amount_wei,
               sector |-> tax.sector,
               result |-> calculate_simplified(tax.gross_amount_wei, tax.sector)]
    /\ UNCHANGED <<private_key, signatures_issued, local, completed, verdict>>

InitTax == /\ tax \in TaxCalls
           /\ private_key = "k1"
           /\ signatures_issued = 0
           /\ local = <<>>
           /\ completed = 0
           /\ verdict = [regime |-> "none"]

NextTax == CalcStandard \/ CalcSimplified

SpecTax == InitTax /\ [][NextTax]_vars

(***************************************************************************)
(* Packed encoding, hash and signature                                     *)
(*                                                                         *)
(* A str is its sequence of UTF-8 bytes, an address its 20 bytes.  Keccak  *)
(* and ECDSA are ideal: a hash is the term [keccak |-> input], equal to    *)
(* another hash only when the inputs are equal, and a signature is the     *)
(* term of its key and digest.                                             *)
(***************************************************************************)
\* uint256: 32 bytes, most significant first
U256(n) == [i \in 1..32 |-> Dig(n, 33 - i)]

encode_packed_one(type, value) ==
    IF type = "uint256" THEN U256(value) ELSE value

RECURSIVE encode_packed(_, _)
encode_packed(types, values) ==
    IF types = <<>> THEN <<>>
    ELSE encode_packed_one(Head(types), Head(values))
         \o encode_packed(Tail(types), Tail(values))

\* Web3.solidity_keccak(types, values)
solidity_keccak(types, values) == [keccak |-> encode_packed(types, values)]

\* "SIMPLIFIED" as UTF-8
SIMPLIFIED_TAG == <<83, 73, 77, 80, 76, 73, 70, 73, 69, 68>>

\* mutant: credit_offset is left out of the signed tuple
standard_message_hash_without_credit(invoice_id, seller_address, gross_amount_wei, cbs_amount, ibs_state_amount, ibs_city_amount, credit_offset) ==
    solidity_keccak(
        <<"string", "address", "uint256", "uint256", "uint256", "uint256">>,
        <<invoice_id, seller_address, gross_amount_wei,
          cbs_amount, ibs_state_amount, ibs_city_amount>>)

standard_message_hash(invoice_id, seller_address, gross_amount_wei, cbs_amount, ibs_state_amount, ibs_city_amount, credit_offset) ==
    solidity_keccak(
        <<"string", "address", "uint256", "uint256", "uint256", "uint256", "uint256">>,
        <<invoice_id, seller_address, gross_amount_wei,
          cbs_amount, ibs_state_amount, ibs_city_amount, credit_offset>>)

simplified_message_hash(invoice_id, seller_address, gross_amount_wei, rate_bps) ==
    solidity_keccak(
        <<"string", "address", "uint256", "uint256", "string">>,
        <<invoice_id, seller_address, gross_amount_wei, FromInt(rate_bps),
          SIMPLIFIED_TAG>>)

\* encode_defunct(hexstr=message_hash.hex()): the EIP-191 personal message
\* whose body is the 32 bytes of the hash
encode_defunct(message_hash) ==
    [preamble |-> "\\x19Ethereum Signed Message:\\n32", body |-> message_hash]

\* the digest sign_message signs and a verifier recovers against
signable_digest(message) == [keccak |-> message]

\* Account.sign_message(message)
sign_message(key, message) == [key |-> key, digest |-> signable_digest(message)]

\* Account.from_key(private_key).address
address_of(key) == [address_of |-> key]

\* the identity recovered from a signature against a digest: the signer's
\* for the digest that was signed, some unrelated identity for any other
recover(digest, signature) ==
    IF signature.digest = digest THEN address_of(signature.key)
    ELSE address_of("unrelated")

(***************************************************************************)
(* FiscalOracle                                                            *)
(***************************************************************************)
\* mutant: the state and municipal shares change places in the record
standard_invoice_swapped(key, invoice_id, seller_address, gross_amount_wei, t) ==
    [invoice_id       |-> invoice_id,
     seller           |-> seller_address,
     gross_amount     |-> gross_amount_wei,
     cbs_amount       |-> t.cbs_amount,
     ibs_state_amount |-> t.ibs_city_amount,
     ibs_city_amount  |-> t.ibs_state_amount,
     credit_offset    |-> t.credit_offset,
     signature        |-> sign_message(key, encode_defunct(
                              standard_message_hash(invoice_id, seller_address,
                                  gross_amount_wei, t.cbs_amount, t.ibs_state_amount,
                                  t.ibs_city_amount, t.credit_offset))),
     signer_address   |-> address_of(key),
     mode             |-> "STANDARD",
     rate_bps         |-> 0]

\* the SignedInvoice (timestamp left out: the wall clock is not signed and
\* nothing reads it)
standard_invoice(key, invoice_id, seller_address, gross_amount_wei, t) ==
    [invoice_id       |-> invoice_id,
     seller           |-> seller_address,
     gross_amount     |-> gross_amount_wei,
     cbs_amount       |-> t.cbs_amount,
     ibs_state_amount |-> t.ibs_state_amount,
     ibs_city_amount  |-> t.ibs_city_amount,
     credit_offset    |-> t.credit_offset,
     signature        |-> sign_message(key, encode_defunct(
                              standard_message_hash(invoice_id, seller_address,
                                  gross_amount_wei, t.cbs_amount, t.ibs_state_amount,
                                  t.ibs_city_amount, t.credit_offset))),
     signer_address   |-> address_of(key),
     mode             |-> "STANDARD",
     rate_bps         |-> 0]

simplified_invoice(key, invoice_id, seller_address, gross_amount_wei, t) ==
    [invoice_id       |-> invoice_id,
     seller           |-> seller_address,
     gross_amount     |-> gross_amount_wei,
     cbs_amount       |-> Zero,
     ibs_state_amount |-> Zero,
     ibs_city_amount  |-> Zero,
     credit_offset    |-> Zero,
     signature        |-> sign_message(key, encode_defunct(
                              simplified_message_hash(invoice_id, seller_address,
                                  gross_amount_wei, t.rate_bps))),
     signer_address   |-> address_of(key),
     mode             |-> "SIMPLIFIED",
     rate_bps         |-> t.rate_bps]

(***************************************************************************)
(* The verifier contract, the collaborator that consumes an authorization: *)
(* it packs the fields it is given in the wire order, hashes, wraps the    *)
(* hash as a personal message and recovers the signer.                     *)
(***************************************************************************)
verifier_hash_standard(T) ==
    [keccak |-> T.invoice_id \o T.seller \o U256(T.gross_amount) \o U256(T.cbs_amount)
                \o U256(T.ibs_state_amount) \o U256(T.ibs_city_amount)
                \o U256(T.credit_offset)]

verifier_hash_simplified(T) ==
    [keccak |-> T.invoice_id \o T.seller \o U256(T.gross_amount)
                \o U256(FromInt(T.rate_bps)) \o SIMPLIFIED_TAG]

verifier_digest(hash) ==
    [keccak |-> [preamble |-> "\\x19Ethereum Signed Message:\\n32", body |-> hash]]

verifier_recover(hash, signature) == recover(verifier_digest(hash), signature)

(***************************************************************************)
(* Callers and the receiving party                                         *)
(***************************************************************************)
MaxCalls == 2

\* "NFe1", "NFe2", "NFe9" as UTF-8
NFE1 == <<78, 70, 101, 49>>
NFE2 == <<78, 70, 101, 50>>
NFE9 == <<78, 70, 101, 57>>

\* 0x1234567890123456789012345678901234567890 and 0x4141...41
VENDEDOR == [i \in 1..20 |-> <<18, 52, 86, 120, 144>>[((i - 1) % 5) + 1]]
OUTRO == [i \in 1..20 |-> 65]

\* an invoice id a caller may supply: "NFe9" followed by 86 characters
\* (20 'A', 31 NUL, 'd', 34 NUL)
LONG_ID == NFE9 \o OUTRO \o U256(FromInt(100)) \o U256(Zero) \o <<0, 0>>

InvoiceIds == {NFE1, NFE2, LONG_ID}
Sellers == {VENDEDOR, OUTRO}
Keys == {"k1", "k2"}

Requests ==
    [invoice_id : InvoiceIds, seller_address : Sellers,
     gross_amount_wei : {Zero, FromInt(10000), Ether(1000)},
     sector : {"PADRAO", "SAUDE", "LUXO"},
     seller_credits_wei : {Zero, Ether(50)}]

ConcurrentRequests ==
    [invoice_id : {NFE1}, seller_address : {VENDEDOR},
     gross_amount_wei : {Ether(1000)},
     sector : {"PADRAO", "CESTA_BASICA"},
     seller_credits_wei : {Zero}]

NoResult == [mode |-> "none"]
NoVerdict == [regime |-> "none"]

Idle(request) ==
    [pc |-> "idle", fn |-> "none", request |-> request, tax |-> NoTax,
     loaded |-> 0, result |-> NoResult]

Callers == DOMAIN local

InFlight == {t \in Callers : local[t].pc = "incr"}

\* a call in flight: tax computed, payload signed, self.signatures_issued read
InCall(fn, q, t, invoice) ==
    [pc |-> "incr", fn |-> fn, request |-> q, tax |-> t,
     loaded |-> signatures_issued, result |-> invoice]

StandardCall(q, t) ==
    InCall("authorize_standard", q, t,
           standard_invoice(private_key, q.invoice_id, q.seller_address,
                            q.gross_amount_wei, t))

SimplifiedCall(q, t) ==
    InCall("authorize_simplified", q, t,
           simplified_invoice(private_key, q.invoice_id, q.seller_address,
                              q.gross_amount_wei, t))

\* authorize_standard up to the read of self.signatures_issued
authorize_standard_call(t) ==
    /\ local[t].pc \in {"idle", "done"}
    /\ completed + Cardinality(InFlight) < MaxCalls
    /\ local' = [local EXCEPT ![t] =
           StandardCall(local[t].request,
               calculate_standard(local[t].request.gross_amount_wei,
                                  local[t].request.sector,
                                  local[t].request.seller_credits_wei))]
    /\ verdict' = NoVerdict
    /\ UNCHANGED <<tax, private_key, signatures_issued, completed>>

\* authorize_simplified up to the read of self.signatures_issued
authorize_simplified_call(t) ==
    /\ local[t].pc \in {"idle", "done"}
    /\ completed + Cardinality(InFlight) < MaxCalls
    /\ local' = [local EXCEPT ![t] =
           SimplifiedCall(local[t].request,
               calculate_simplified(local[t].request.gross_amount_wei,
                                    local[t].request.sector))]
    /\ verdict' = NoVerdict
    /\ UNCHANGED <<tax, private_key, signatures_issued, completed>>

\* the write of self.signatures_issued += 1 and the return of the record
authorize_standard_return(t) ==
    /\ local[t].pc = "incr"
    /\ local[t].fn = "authorize_standard"
    /\ signatures_issued' = local[t].loaded + 1
    /\ local' = [local EXCEPT ![t].pc = "done"]
    /\ completed' = completed + 1
    /\ UNCHANGED <<tax, private_key, verdict>>

authorize_simplified_return(t) ==
    /\ local[t].pc = "incr"
    /\ local[t].fn = "authorize_simplified"
    /\ signatures_issued' = local[t].loaded + 1
    /\ local' = [local EXCEPT ![t].pc = "done"]
    /\ completed' = completed + 1
    /\ UNCHANGED <<tax, private_key, verdict>>

\* the fields of a record that the standard verifier is given
StandardTuple(r) ==
    [invoice_id |-> r.invoice_id, seller |-> r.seller, gross_amount |-> r.gross_amount,
     cbs_amount |-> r.cbs_amount, ibs_state_amount |-> r.ibs_state_amount,
     ibs_city_amount |-> r.ibs_city_amount, credit_offset |-> r.credit_offset]

SimplifiedTuple(r) ==
    [invoice_id |-> r.invoice_id, seller |-> r.seller, gross_amount |-> r.gross_amount,
     rate_bps |-> r.rate_bps]

OtherValues(f, v) ==
    (IF f = "invoice_id" THEN InvoiceIds
     ELSE IF f = "seller" THEN Sellers
     ELSE {Zero, Add(v, <<1>>)} \cup (IF v = Zero THEN {} ELSE {Sub(v, <<1>>)}))
    \ {v}

\* the tuples that differ from T in exactly one field
Tampered(T) ==
    {[T EXCEPT ![f] = v] : <<f, v>> \in
        UNION {{<<f, v>> : v \in OtherValues(f, T[f])} : f \in DOMAIN T}}

\* 32 bytes, most significant first, as a number
FromU256(b) == Norm([i \in 1..32 |-> b[33 - i]])

\* a byte string of at least 180 bytes read as a packed standard tuple
Word(payload, n, k) == FromU256(SubSeq(payload, n + 21 + 32 * k, n + 52 + 32 * k))

ReadWithId(payload, n) ==
    [invoice_id |-> SubSeq(payload, 1, n),
     seller |-> SubSeq(payload, n + 1, n + 20),
     gross_amount |-> Word(payload, n, 0), cbs_amount |-> Word(payload, n, 1),
     ibs_state_amount |-> Word(payload, n, 2), ibs_city_amount |-> Word(payload, n, 3),
     credit_offset |-> Word(payload, n, 4)]

ReadAsStandard(payload) == ReadWithId(payload, Len(payload) - 180)

\* the bytes whose hash the signature of record r covers
SignedPayload(r) == r.signature.digest.keccak.body.keccak

\* what a receiving party may hand to the standard verifier with the
\* signature of record r
PresentedStandard(r) ==
    IF r.mode = "STANDARD"
    THEN {StandardTuple(r)} \cup Tampered(StandardTuple(r))
    ELSE {StandardTuple(r),
          [StandardTuple(r) EXCEPT !.cbs_amount = FromInt(r.rate_bps)],
          [StandardTuple(r) EXCEPT !.credit_offset = FromInt(r.rate_bps)]}
         \cup (IF Len(SignedPayload(r)) > 180
               THEN {ReadAsStandard(SignedPayload(r))} ELSE {})

PresentedSimplified(r) ==
    {SimplifiedTuple(r), [SimplifiedTuple(r) EXCEPT !.rate_bps = 0],
     [SimplifiedTuple(r) EXCEPT !.rate_bps = r.rate_bps + 1]}

\* accepted when the recovered identity is the registered oracle's
Verdict(regime, T, r, who) ==
    [regime |-> regime, presented |-> T, origin |-> r, recovered |-> who,
     accepted |-> (who = address_of(private_key))]

\* the verifier checks tuple T and the signature of caller t's record
VerifyStandard(t) ==
    /\ local[t].pc = "done"
    /\ \E T \in PresentedStandard(local[t].result) :
         verdict' = Verdict("STANDARD", T, local[t].result,
                        verifier_recover(verifier_hash_standard(T),
                                         local[t].result.signature))
    /\ UNCHANGED <<tax, private_key, signatures_issued, local, completed>>

VerifySimplified(t) ==
    /\ local[t].pc = "done"
    /\ local[t].result.mode = "SIMPLIFIED"
    /\ \E T \in PresentedSimplified(local[t].result) :
         verdict' = Verdict("SIMPLIFIED", T, local[t].result,
                        verifier_recover(verifier_hash_simplified(T),
                                         local[t].result.signature))
    /\ UNCHANGED <<tax, private_key, signatures_issued, local, completed>>

\* FiscalOracle.__init__ and one caller with a request
Init == /\ tax = NoTax
        /\ private_key \in Keys
        /\ signatures_issued = 0
        /\ local \in [{1} -> {Idle(q) : q \in Requests}]
        /\ completed = 0
        /\ verdict = NoVerdict

\* FiscalOracle.__init__ and two callers sharing the oracle
InitConcurrent ==
        /\ tax = NoTax
        /\ private_key \in Keys
        /\ signatures_issued = 0
        /\ local \in [{1, 2} -> {Idle(q) : q \in ConcurrentRequests}]
        /\ completed = 0
        /\ verdict = NoVerdict

Next ==
    \/ \E t \in Callers : authorize_standard_call(t)
    \/ \E t \in Callers : authorize_standard_return(t)
    \/ \E t \in Callers : authorize_simplified_call(t)
    \/ \E t \in Callers : authorize_simplified_return(t)
    \/ \E t \in Callers : VerifyStandard(t)
    \/ \E t \in Callers : VerifySimplified(t)

Spec == Init /\ [][Next]_vars

SpecConcurrent == InitConcurrent /\ [][Next]_vars

(***************************************************************************)
(* TaxEngine properties (SpecTax)                                          *)
(***************************************************************************)
Standard == tax.pc = "calculate_standard"
Simplified == tax.pc = "calculate_simplified"

\* floor(gross * num / den) in exact integer arithmetic
ExactFloor(gross, num, den) == DivModSmall(MulSmall(gross, num), den).q

\* C5: credit cap. calculate_standard's credit_offset never exceeds the
\* total tax nor the credits supplied, is one of the two, and
\* net_tax = total_tax - credit_offset; credits above the tax give
\* credit_offset = total_tax exactly.
C5_CreditCap ==
    Standard =>
        LET r == tax.result
            c == tax.seller_credits_wei
        IN  /\ Leq(r.credit_offset, r.total_tax)
            /\ Leq(r.credit_offset, c)
            /\ (r.credit_offset = c \/ r.credit_offset = r.total_tax)
            /\ Add(r.net_tax, r.credit_offset) = r.total_tax
            /\ (Cmp(c, r.total_tax) > 0 => r.credit_offset = r.total_tax)

C5_Witness ==
    /\ Standard
    /\ tax.result.total_tax # Zero
    /\ tax.seller_credits_wei = MulSmall(tax.result.total_tax, 10)
    /\ tax.result.credit_offset = tax.result.total_tax
    /\ tax.result.net_tax = Zero

\* C6: the seller never goes negative. calculate_standard returns
\* net_tax <= total_tax <= gross_amount and
\* net_to_seller = gross_amount - net_tax, between 0 and gross_amount.
C6_SellerNonNegative ==
    Standard =>
        LET r == tax.result
        IN  /\ Leq(r.net_tax, r.total_tax)
            /\ Leq(r.total_tax, r.gross_amount)
            /\ Leq(r.net_tax, r.gross_amount)
            /\ Add(r.net_to_seller, r.net_tax) = r.gross_amount
            /\ Leq(r.net_to_seller, r.gross_amount)

C6_Witness ==
    /\ Standard
    /\ tax.sector \in UnknownSectors
    /\ tax.result.credit_offset # Zero
    /\ tax.result.net_tax # Zero
    /\ Cmp(tax.result.net_to_seller, tax.result.gross_amount) < 0

\* C7: standard-regime truncation. Each share of calculate_standard is
\* floor(gross_amount * rate) for the sector's rate, exactly, and total_tax
\* is the sum of the three shares.
C7_StandardTruncation ==
    Standard =>
        LET r     == tax.result
            rates == sector_rates(tax.sector)
        IN  /\ r.cbs_amount = ExactFloor(r.gross_amount, rates.CBS, 10000)
            /\ r.ibs_state_amount = ExactFloor(r.gross_amount, rates.IBS_ESTADO, 10000)
            /\ r.ibs_city_amount = ExactFloor(r.gross_amount, rates.IBS_MUNICIPIO, 10000)
            /\ r.total_tax = Add(Add(r.cbs_amount, r.ibs_state_amount), r.ibs_city_amount)

\* C8: simplified-regime withholding. calculate_simplified returns
\* tax_amount = floor(gross_amount * rate_bps / 10000) in exact integer
\* arithmetic and net_to_seller = gross_amount - tax_amount.
C8_SimplifiedWithholding ==
    Simplified =>
        LET r == tax.result
        IN  /\ r.tax_amount = ExactFloor(r.gross_amount, r.rate_bps, 10000)
            /\ Leq(r.tax_amount, r.gross_amount)
            /\ Add(r.net_to_seller, r.tax_amount) = r.gross_amount

\* C9 as stated: for gross_amount = 0 the result of either regime has all
\* tax amounts 0 and effective_rate 0, and no error is raised.
C9_ZeroAmount ==
    (tax.pc \in {"calculate_standard", "calculate_simplified"}
     /\ tax.gross_amount_wei = Zero) =>
        /\ tax.result.effective_rate.den # Zero
        /\ tax.result.effective_rate.num = Zero
        /\ Standard => /\ tax.result.cbs_amount = Zero
                       /\ tax.result.ibs_state_amount = Zero
                       /\ tax.result.ibs_city_amount = Zero
                       /\ tax.result.total_tax = Zero
                       /\ tax.result.credit_offset = Zero
                       /\ tax.result.net_tax = Zero
        /\ Simplified => tax.result.tax_amount = Zero

\* C9 amended: for gross_amount = 0 all tax amounts of either regime are 0
\* and no error is raised; calculate_standard's effective_rate is 0, while
\* calculate_simplified's effective_rate is rate_bps / 10000, the sector's
\* nominal rate, which is 0 only for a sector whose rate is 0.
C9_ZeroAmountAmended ==
    (tax.pc \in {"calculate_standard", "calculate_simplified"}
     /\ tax.gross_amount_wei = Zero) =>
        /\ tax.result.effective_rate.den # Zero
        /\ Standard => /\ tax.result.effective_rate.num = Zero
                       /\ tax.result.cbs_amount = Zero
                       /\ tax.result.ibs_state_amount = Zero
                       /\ tax.result.ibs_city_amount = Zero
                       /\ tax.result.total_tax = Zero
                       /\ tax.result.credit_offset = Zero
                       /\ tax.result.net_tax = Zero
                       /\ tax.result.net_to_seller = Zero
        /\ Simplified => /\ tax.result.tax_amount = Zero
                         /\ tax.result.net_to_seller = Zero
                         /\ tax.result.effective_rate.num = FromInt(tax.result.rate_bps)
                         /\ tax.result.effective_rate.den = FromInt(10000)

C9_Witness ==
    /\ Standard
    /\ tax.gross_amount_wei = Zero
    /\ tax.seller_credits_wei # Zero
    /\ tax.result.effective_rate.num = Zero

(***************************************************************************)
(* FiscalOracle properties (Spec, SpecConcurrent)                          *)
(***************************************************************************)
Done == {t \in Callers : local[t].pc = "done"}

ChangedFields(T, O) == {f \in DOMAIN T : T[f] # O[f]}

\* the digest the oracle's own packing gives for a standard tuple
OracleDigest(T) ==
    signable_digest(encode_defunct(
        standard_message_hash(T.invoice_id, T.seller, T.gross_amount, T.cbs_amount,
                              T.ibs_state_amount, T.ibs_city_amount, T.credit_offset)))

SingleFieldTamper ==
    /\ verdict.regime = "STANDARD"
    /\ verdict.origin.mode = "STANDARD"
    /\ Cardinality(ChangedFields(verdict.presented, StandardTuple(verdict.origin))) = 1

\* C1: tamper sensitivity. When the standard tuple handed to the verifier
\* differs from an issued authorization in exactly one signed field, the
\* recomputed hash is not the signed one, the identity recovered from the
\* original signature is not the signer's, and the authorization is rejected.
C1_TamperSensitivity ==
    SingleFieldTamper =>
        /\ OracleDigest(verdict.presented) # verdict.origin.signature.digest
        /\ verdict.recovered # verdict.origin.signer_address
        /\ ~verdict.accepted

C1_Witness ==
    /\ SingleFieldTamper
    /\ verdict.presented.cbs_amount = Add(verdict.origin.cbs_amount, <<1>>)
    /\ verdict.origin.credit_offset # Zero
    /\ ~verdict.accepted

\* C2: regime isolation. A signature issued by authorize_simplified is never
\* accepted for a tuple in the STANDARD encoding: the simplified payload is
\* never the packed standard payload of any tuple.
C2_RegimeIsolation ==
    (verdict.regime = "STANDARD" /\ verdict.origin.mode = "SIMPLIFIED") =>
        /\ OracleDigest(verdict.presented) # verdict.origin.signature.digest
        /\ ~verdict.accepted

\* C3: round trip. A record returned by authorize_standard carries exactly
\* the values that were packed and signed, so the verifier recomputing the
\* hash from the record in the wire order recovers signer_address, and its
\* mode is STANDARD; a record returned by authorize_simplified has mode
\* SIMPLIFIED, zero shares and credit, and its (invoice_id, seller,
\* gross_amount, rate_bps, "SIMPLIFIED") recomputes to the signed hash.
C3_RoundTrip ==
    /\ \A t \in Done :
         /\ local[t].result.signer_address = address_of(private_key)
         /\ local[t].result.invoice_id = local[t].request.invoice_id
         /\ local[t].result.seller = local[t].request.seller_address
         /\ local[t].result.gross_amount = local[t].request.gross_amount_wei
         /\ local[t].fn = "authorize_standard" =>
              /\ local[t].result.mode = "STANDARD"
              /\ local[t].result.cbs_amount = local[t].tax.cbs_amount
              /\ local[t].result.ibs_state_amount = local[t].tax.ibs_state_amount
              /\ local[t].result.ibs_city_amount = local[t].tax.ibs_city_amount
              /\ local[t].result.credit_offset = local[t].tax.credit_offset
              /\ verifier_recover(verifier_hash_standard(StandardTuple(local[t].result)),
                                  local[t].result.signature)
                 = local[t].result.signer_address
         /\ local[t].fn = "authorize_simplified" =>
              /\ local[t].result.mode = "SIMPLIFIED"
              /\ local[t].result.cbs_amount = Zero
              /\ local[t].result.ibs_state_amount = Zero
              /\ local[t].result.ibs_city_amount = Zero
              /\ local[t].result.credit_offset = Zero
              /\ local[t].result.rate_bps = local[t].tax.rate_bps
              /\ verifier_recover(
                     verifier_hash_simplified(SimplifiedTuple(local[t].result)),
                     local[t].result.signature)
                 = local[t].result.signer_address
    /\ (verdict.regime = "STANDARD" /\ verdict.origin.mode = "STANDARD"
        /\ verdict.presented = StandardTuple(verdict.origin)) => verdict.accepted
    /\ (verdict.regime = "SIMPLIFIED"
        /\ verdict.presented = SimplifiedTuple(verdict.origin)) => verdict.accepted

C3_Witness ==
    /\ verdict.regime = "STANDARD"
    /\ verdict.origin.mode = "STANDARD"
    /\ verdict.presented = StandardTuple(verdict.origin)
    /\ verdict.origin.ibs_state_amount # verdict.origin.ibs_city_amount
    /\ verdict.origin.credit_offset # Zero
    /\ verdict.accepted

\* C4: no lost updates. Whatever the interleaving of concurrent calls, the
\* issuance counter equals the number of calls completed.
C4_NoLostUpdates == signatures_issued = completed

\* C10: unknown-sector fallback. For a sector that is not in the rate table
\* the tax computed, and the authorization signed and issued, are those of
\* sector PADRAO for the same request; the simplified rate is 2650 bps.
C10_UnknownSectorFallback ==
    \A t \in Callers :
        (local[t].pc # "idle" /\ local[t].request.sector \notin KnownSectors) =>
            /\ local[t].fn = "authorize_standard" =>
                 /\ [local[t].tax EXCEPT !.sector = "PADRAO"]
                    = calculate_standard(local[t].request.gross_amount_wei, "PADRAO",
                                         local[t].request.seller_credits_wei)
                 /\ local[t].result
                    = standard_invoice(private_key, local[t].request.invoice_id,
                          local[t].request.seller_address,
                          local[t].request.gross_amount_wei,
                          calculate_standard(local[t].request.gross_amount_wei,
                              "PADRAO", local[t].request.seller_credits_wei))
            /\ local[t].fn = "authorize_simplified" =>
                 /\ local[t].tax.rate_bps = 2650
                 /\ [local[t].tax EXCEPT !.sector = "PADRAO"]
                    = calculate_simplified(local[t].request.gross_amount_wei, "PADRAO")
                 /\ local[t].result
                    = simplified_invoice(private_key, local[t].request.invoice_id,
                          local[t].request.seller_address,
                          local[t].request.gross_amount_wei,
                          calculate_simplified(local[t].request.gross_amount_wei,
                                               "PADRAO"))

C10_Witness ==
    \E t \in Done :
        /\ local[t].request.sector \in UnknownSectors
        /\ local[t].fn = "authorize_standard"
        /\ local[t].result.cbs_amount # Zero
        /\ signatures_issued = 1
====
